---- MODULE Spec2Model ----
(***************************************************************************)
(* Model of src/server.js: the Express handler getCityWeather, the        *)
(* CITY_MAP lookup table, the forecast normalisation loop and the error   *)
(* branch.  The file holds two variants of the server (22 cities, lines   *)
(* 1-221; 6 cities, lines 222-413); the variable variant selects one.     *)
(*                                                                         *)
(* Strings are ASCII: the Chinese literals of the source are written in   *)
(* romanised form and the degree sign of the temperature suffix as        *)
(* "[deg]".  Every literal keeps its own distinct text.                    *)
(***************************************************************************)
EXTENDS Naturals, Sequences, FiniteSets, TLC

----------------------------------------------------------------------------
(* Bounds of the model.                                                    *)

\* number of in-flight requests of the concurrent specification
NReq == 2
\* largest number of weather elements in an upstream location record
MaxElems == 2
\* largest number of time entries in a weather element
MaxTime == 2

----------------------------------------------------------------------------
(* JavaScript values, as far as the handler looks at them.                 *)

Undefined == [t |-> "undefined"]
Null == [t |-> "null"]
Str(s) == [t |-> "string", v |-> s]
\* a built-in function; v is its rendering in a template literal
Fn(s) == [t |-> "function", v |-> s]

\* ToBoolean, as used by `!x` and `x || y`
Truthy(x) ==
  CASE x.t = "undefined" -> FALSE
    [] x.t = "null" -> FALSE
    [] x.t = "string" -> x.v # ""
    [] OTHER -> TRUE

\* ToString of JavaScript, as used by a template literal `${x}`
JSToString(x) ==
  CASE x.t = "undefined" -> "undefined"
    [] x.t = "null" -> "null"
    [] OTHER -> x.v

----------------------------------------------------------------------------
(* CITY_MAP and the lookup CITY_MAP[cityCode].                             *)

CITY_MAP_22 ==
  [ taipei |-> "Taibei Shi", new_taipei |-> "Xinbei Shi",
    taoyuan |-> "Taoyuan Shi", taichung |-> "Taizhong Shi",
    tainan |-> "Tainan Shi", kaohsiung |-> "Gaoxiong Shi",
    keelung |-> "Jilong Shi", hsinchu_city |-> "Xinzhu Shi",
    hsinchu_county |-> "Xinzhu Xian", yilan |-> "Yilan Xian",
    miaoli |-> "Miaoli Xian", changhua |-> "Zhanghua Xian",
    nantou |-> "Nantou Xian", yunlin |-> "Yunlin Xian",
    chiayi_city |-> "Jiayi Shi", chiayi_county |-> "Jiayi Xian",
    pingtung |-> "Pingdong Xian", hualien |-> "Hualian Xian",
    taitung |-> "Taidong Xian", penghu |-> "Penghu Xian",
    kinmen |-> "Jinmen Xian", lienchiang |-> "Lianjiang Xian" ]

CITY_MAP_6 ==
  [ taipei |-> "Taibei Shi", new_taipei |-> "Xinbei Shi",
    taoyuan |-> "Taoyuan Shi", taichung |-> "Taizhong Shi",
    tainan |-> "Tainan Shi", kaohsiung |-> "Gaoxiong Shi" ]

Variants == {"full", "six"}

CityMapOf(v) == IF v = "full" THEN CITY_MAP_22 ELSE CITY_MAP_6

\* CITY_MAP is an object literal, so it inherits the properties of
\* Object.prototype; a property read walks the prototype chain.
ObjectPrototype ==
  [ constructor |-> Fn("function Object() { [native code] }"),
    toString |-> Fn("function toString() { [native code] }") ]

\* the property read CITY_MAP[cityCode]
Lookup(map, key) ==
  IF key \in DOMAIN map THEN Str(map[key])
  ELSE IF key \in DOMAIN ObjectPrototype THEN ObjectPrototype[key]
  ELSE Undefined

\* city codes a client sends as the :city path segment
CityCodes == {"taipei", "hualien", "Taipei", "atlantis", "constructor"}

\* values of process.env.CWA_API_KEY
ApiKeys == {Undefined, Str(""), Str("CWA-KEY")}

----------------------------------------------------------------------------
(* What the upstream provider can answer to axios.get.                     *)

Digit == <<"1", "2", "3", "4", "5", "6", "7", "8", "9">>

\* the six element names of the switch, and one the switch does not know
RecognizedNames == {"Wx", "PoP", "MinT", "MaxT", "CI", "WS"}
ElementNames == RecognizedNames \cup {"UVI"}

\* the i-th time entry of the j-th element; every entry carries its own
\* times and its own value, so that a mix-up of entries shows
TimeEntry(j, i, withParameter) ==
  [ startTime |-> "S" \o Digit[j] \o "." \o Digit[i],
    endTime |-> "E" \o Digit[j] \o "." \o Digit[i],
    hasParameter |-> withParameter,
    parameterName |-> Digit[j] \o Digit[i] ]

MkElement(j, name, n, withParameter) ==
  [ elementName |-> name,
    time |-> [i \in 1..n |-> TimeEntry(j, i, withParameter)] ]

\* the weatherElement arrays with k elements
ElementSeqs(k) ==
  { [j \in 1..k |-> MkElement(j, names[j], lens[j], TRUE)] :
      names \in [1..k -> ElementNames], lens \in [1..k -> 0..MaxTime] }

\* arrays whose entries lack the parameter object
ParameterlessSeqs ==
  { <<MkElement(1, name, 1, FALSE)>> : name \in {"Wx", "UVI"} }

WeatherElementSeqs ==
  UNION { ElementSeqs(k) : k \in 0..MaxElems } \cup ParameterlessSeqs

MkLocation(name, elems) ==
  [ locationName |-> name, hasWeatherElement |-> TRUE, weatherElement |-> elems ]

\* the six known elements after an unknown one, with three aligned entries
SixElements ==
  << MkElement(1, "UVI", 3, TRUE), MkElement(2, "Wx", 3, TRUE),
     MkElement(3, "PoP", 3, TRUE), MkElement(4, "MinT", 3, TRUE),
     MkElement(5, "MaxT", 3, TRUE), MkElement(6, "CI", 3, TRUE),
     MkElement(7, "WS", 3, TRUE) >>

NoElementsLocation ==
  [ locationName |-> "Taibei Shi", hasWeatherElement |-> FALSE,
    weatherElement |-> <<>> ]

OkReply(locations) ==
  [ kind |-> "ok", hasRecords |-> TRUE, location |-> locations,
    datasetDescription |-> "36h forecast" ]

\* a 2xx answer whose body has no records object
NoRecordsReply ==
  [ kind |-> "ok", hasRecords |-> FALSE, location |-> <<>>,
    datasetDescription |-> "" ]

\* the request got no answer at all: the axios error has no response
TransportFailure == [kind |-> "transport"]

UpstreamStatuses == {401, 503}

\* bodies of a non-2xx answer: JSON null, a string, an object with or
\* without a message
ErrorBodies ==
  { Null, Str("Bad Gateway") } \cup
  { [t |-> "object", message |-> m] :
      m \in {Undefined, Str(""), Str("Unauthorized"), Str("quota exceeded")} }

StatusReply(s, body) == [kind |-> "status", status |-> s, data |-> body]

StatusReplies == { StatusReply(s, b) : s \in UpstreamStatuses, b \in ErrorBodies }

Replies ==
  {TransportFailure, NoRecordsReply, OkReply(<<>>), OkReply(<<NoElementsLocation>>)}
  \cup StatusReplies
  \cup { OkReply(<<MkLocation("Taibei Shi", e)>>) : e \in WeatherElementSeqs }
  \cup { OkReply(<<MkLocation("Taibei Shi", SixElements)>>) }
  \cup { OkReply(<<MkLocation("Hualian Xian", <<MkElement(1, "Wx", 1, TRUE)>>),
                   MkLocation("Taibei Shi", <<>>)>>) }

NoReply == [kind |-> "none"]

----------------------------------------------------------------------------
(* The normalisation loop of getCityWeather (lines 113-154).               *)

PercentSuffix == "%"
\* stands for the degree sign followed by C
DegreeSuffix == "[deg]C"

Thrown == [threw |-> TRUE]

\* the object literal of lines 118-127
NewForecast(first, i) ==
  [ startTime |-> first.time[i].startTime,
    endTime |-> first.time[i].endTime,
    weather |-> "", rain |-> "", minTemp |-> "", maxTemp |-> "",
    comfort |-> "", windSpeed |-> "" ]

\* mutant: the rain case forgets its suffix and MaxT writes minTemp
SwitchElementNameSlip(forecast, name, value) ==
  CASE name = "Wx" -> [forecast EXCEPT !.weather = value]
    [] name = "PoP" -> [forecast EXCEPT !.rain = value]
    [] name = "MinT" -> [forecast EXCEPT !.minTemp = value \o DegreeSuffix]
    [] name = "MaxT" -> [forecast EXCEPT !.minTemp = value \o DegreeSuffix]
    [] name = "CI" -> [forecast EXCEPT !.comfort = value]
    [] name = "WS" -> [forecast EXCEPT !.windSpeed = value]
    [] OTHER -> forecast

\* the switch of lines 131-150; value is element.time[i].parameter
SwitchElementName(forecast, name, value) ==
  CASE name = "Wx" -> [forecast EXCEPT !.weather = value]
    [] name = "PoP" -> [forecast EXCEPT !.rain = value \o PercentSuffix]
    [] name = "MinT" -> [forecast EXCEPT !.minTemp = value \o DegreeSuffix]
    [] name = "MaxT" -> [forecast EXCEPT !.maxTemp = value \o DegreeSuffix]
    [] name = "CI" -> [forecast EXCEPT !.comfort = value]
    [] name = "WS" -> [forecast EXCEPT !.windSpeed = value]
    [] OTHER -> forecast

\* one call of the forEach callback (lines 129-151): element.time[i] is
\* undefined past the end of the element's series, and reading .parameter
\* of it throws; value.parameterName throws when the entry has no parameter
\* and the switch reaches a case that reads it
Callback(forecast, element, i) ==
  IF i > Len(element.time) THEN Thrown
  ELSE IF element.elementName \in RecognizedNames
          /\ ~element.time[i].hasParameter THEN Thrown
  ELSE [ threw |-> FALSE,
         forecast |-> SwitchElementName(forecast, element.elementName,
                                        element.time[i].parameterName) ]

\* weatherElements.forEach from element k on
RECURSIVE ForEach(_, _, _, _)
ForEach(forecast, elements, k, i) ==
  IF k > Len(elements) THEN [threw |-> FALSE, forecast |-> forecast]
  ELSE LET r == Callback(forecast, elements[k], i)
       IN IF r.threw THEN Thrown
          ELSE ForEach(r.forecast, elements, k + 1, i)

\* the for loop of lines 117-154 from index i on; forecasts is
\* weatherData.forecasts so far
RECURSIVE ForLoop(_, _, _, _)
ForLoop(elements, timeCount, i, forecasts) ==
  IF i > timeCount THEN [threw |-> FALSE, forecasts |-> forecasts]
  ELSE LET r == ForEach(NewForecast(elements[1], i), elements, 1, i)
       IN IF r.threw THEN Thrown
          ELSE ForLoop(elements, timeCount, i + 1, Append(forecasts, r.forecast))

\* lines 113-154: weatherElements[0].time throws when weatherElement is
\* missing or empty
Normalize(locationData) ==
  IF ~locationData.hasWeatherElement THEN Thrown
  ELSE IF Len(locationData.weatherElement) = 0 THEN Thrown
  ELSE ForLoop(locationData.weatherElement,
               Len(locationData.weatherElement[1].time), 1, <<>>)

----------------------------------------------------------------------------
(* The responses the server sends: res.status(s).json(body).               *)

\* lines 69-73 and 263-267
InvalidCityCodeResponse(v, cityCode) ==
  [ status |-> 400,
    body |-> [ success |-> FALSE, error |-> "Canshu cuowu",
               message |->
                 IF v = "full"
                 THEN "Bu zhichi '" \o cityCode
                      \o "'. Qing shiyong zhengque de chengshi daima (liru: taipei, hualien, penghu...)"
                 ELSE "Bu zhichi ci chengshi daima, qing shiyong: taipei, new_taipei, taoyuan, taichung, tainan, kaohsiung" ] ]

\* lines 78-81
ServerMisconfiguredResponse ==
  [ status |-> 500,
    body |-> [ error |-> "Sifuqi sheding cuowu",
               message |-> "Qing zai .env dang'an zhong sheding CWA_API_KEY" ] ]

\* lines 99-102 and 293-296
NoDataResponse(v, targetLocation) ==
  [ status |-> 404,
    body |-> [ error |-> "Cha wu ziliao",
               message |->
                 "Wufa qude " \o JSToString(targetLocation) \o " de tianqi ziliao"
                 \o (IF v = "full"
                     THEN ", qing queren CWA API laiyuan shifou zhengchang."
                     ELSE "") ] ]

\* lines 156-159: res.json without res.status answers 200
SuccessResponse(weatherData) ==
  [ status |-> 200, body |-> [success |-> TRUE, data |-> weatherData] ]

DefaultUpstreamMessage == "Wufa qude tianqi ziliao"

\* lines 164-167
UpstreamErrorResponse(status, message) ==
  [ status |-> status,
    body |-> [error |-> "CWA API cuowu", message |-> message] ]

\* lines 170-173
ServerErrorResponse ==
  [ status |-> 500,
    body |-> [ error |-> "Sifuqi cuowu",
               message |-> "Wufa qude tianqi ziliao, qing shaohou zai shi" ] ]

\* lines 204-207
MiddlewareResponse(errMessage) ==
  [ status |-> 500, body |-> [error |-> "Sifuqi cuowu", message |-> errMessage] ]

----------------------------------------------------------------------------
(* getCityWeather after the await (lines 95-174).                          *)

TypeError == [hasResponse |-> FALSE, name |-> "TypeError"]
\* an axios error of a request that got no answer: error.response is unset
NetworkError == [hasResponse |-> FALSE, name |-> "AxiosError"]
AxiosError(reply) ==
  [hasResponse |-> TRUE, status |-> reply.status, data |-> reply.data]

Responds(response) == [escaped |-> FALSE, threw |-> FALSE, response |-> response]
Throws(error) == [escaped |-> FALSE, threw |-> TRUE, error |-> error]
Escapes == [escaped |-> TRUE, threw |-> TRUE]

\* lines 106-111 with the forecasts of the loop
WeatherData(cityCode, reply, forecasts) ==
  [ city |-> reply.location[1].locationName,
    cityCode |-> cityCode,
    updateTime |-> reply.datasetDescription,
    forecasts |-> forecasts ]

\* mutant: the test of line 98 is missing, so locationData.locationName
\* of an empty location array throws
TryBlockNoEmptyTest(v, cityCode, targetLocation, reply) ==
  IF reply.kind = "transport" THEN Throws(NetworkError)
  ELSE IF reply.kind = "status" THEN Throws(AxiosError(reply))
  ELSE IF ~reply.hasRecords THEN Throws(TypeError)
  ELSE IF Len(reply.location) = 0 THEN Throws(TypeError)
  ELSE LET n == Normalize(reply.location[1])
       IN IF n.threw THEN Throws(TypeError)
          ELSE Responds(SuccessResponse(
                          WeatherData(cityCode, reply, n.forecasts)))

\* the try block from the await on (lines 85-159): axios.get rejects when
\* there is no answer or the status is not 2xx
TryBlock(v, cityCode, targetLocation, reply) ==
  IF reply.kind = "transport" THEN Throws(NetworkError)
  ELSE IF reply.kind = "status" THEN Throws(AxiosError(reply))
  ELSE IF ~reply.hasRecords THEN Throws(TypeError)
  ELSE IF Len(reply.location) = 0
       THEN Responds(NoDataResponse(v, targetLocation))
  ELSE LET n == Normalize(reply.location[1])
       IN IF n.threw THEN Throws(TypeError)
          ELSE Responds(SuccessResponse(
                          WeatherData(cityCode, reply, n.forecasts)))

\* error.response.data.message: reading a property of null throws
MessageOf(data) ==
  IF data.t = "object" THEN data.message ELSE Undefined

\* the catch block (lines 160-174)
CatchBlock(error) ==
  IF error.hasResponse
  THEN IF error.data.t \in {"null", "undefined"} THEN Escapes
       ELSE LET m == MessageOf(error.data)
            IN Responds(UpstreamErrorResponse(
                          error.status,
                          IF Truthy(m) THEN m.v ELSE DefaultUpstreamMessage))
  ELSE Responds(ServerErrorResponse)

\* lines 95-174 for one answer of the upstream provider
AfterAwait(v, cityCode, targetLocation, reply) ==
  LET t == TryBlock(v, cityCode, targetLocation, reply)
  IN IF t.threw THEN CatchBlock(t.error) ELSE t

----------------------------------------------------------------------------
(* The server as a state machine.                                          *)

VARIABLES
  variant,         \* which of the two server variants of the file runs
  CWA_API_KEY,     \* process.env.CWA_API_KEY, read once at start (line 11)
  CITY_MAP,        \* the lookup table (line 20)
  pc,              \* where each request's handler is
  cityCode,        \* req.params.city
  targetLocation,  \* the handler's local targetLocation
  calls,           \* how many times the handler called axios.get
  outbound,        \* the params of the axios.get call
  upstream,        \* what the upstream provider answered
  sent             \* the responses written to res, in order

vars == << variant, CWA_API_KEY, CITY_MAP, pc, cityCode, targetLocation,
           calls, outbound, upstream, sent >>

Req == DOMAIN pc

NoParams == [Authorization |-> Undefined, locationName |-> Undefined]

\* the state after the module has loaded, with n requests yet to arrive
InitWith(n) ==
  /\ variant \in Variants
  /\ CWA_API_KEY \in ApiKeys
  /\ CITY_MAP = CityMapOf(variant)
  /\ pc = [r \in 1..n |-> "Idle"]
  /\ cityCode = [r \in 1..n |-> ""]
  /\ targetLocation = [r \in 1..n |-> Undefined]
  /\ calls = [r \in 1..n |-> 0]
  /\ outbound = [r \in 1..n |-> NoParams]
  /\ upstream = [r \in 1..n |-> NoReply]
  /\ sent = [r \in 1..n |-> <<>>]

Init == InitWith(1)

InitConcurrent == InitWith(NReq)

\* the test of line 68
PassesValidation(location) == Truthy(location)

\* mutant: the test only notices a key that is not set at all
HasCredentialUnsetOnly(key) == key.t # "undefined"

\* the test of line 77
HasCredential(key) == Truthy(key)

\* lines 59-74: the code is not in the table, answer 400
InvalidCity(r, code) ==
  /\ pc[r] = "Idle"
  /\ ~PassesValidation(Lookup(CITY_MAP, code))
  /\ cityCode' = [cityCode EXCEPT ![r] = code]
  /\ targetLocation' = [targetLocation EXCEPT ![r] = Lookup(CITY_MAP, code)]
  /\ sent' = [sent EXCEPT ![r] = Append(@, InvalidCityCodeResponse(variant, code))]
  /\ pc' = [pc EXCEPT ![r] = "Done"]
  /\ UNCHANGED << variant, CWA_API_KEY, CITY_MAP, calls, outbound, upstream >>

\* lines 59-82: the code passes, the key is not set, answer 500
Misconfigured(r, code) ==
  /\ pc[r] = "Idle"
  /\ PassesValidation(Lookup(CITY_MAP, code))
  /\ ~HasCredential(CWA_API_KEY)
  /\ cityCode' = [cityCode EXCEPT ![r] = code]
  /\ targetLocation' = [targetLocation EXCEPT ![r] = Lookup(CITY_MAP, code)]
  /\ sent' = [sent EXCEPT ![r] = Append(@, ServerMisconfiguredResponse)]
  /\ pc' = [pc EXCEPT ![r] = "Done"]
  /\ UNCHANGED << variant, CWA_API_KEY, CITY_MAP, calls, outbound, upstream >>

\* lines 59-93: both tests pass, axios.get is called and the handler
\* waits for its promise
CallUpstream(r, code) ==
  /\ pc[r] = "Idle"
  /\ PassesValidation(Lookup(CITY_MAP, code))
  /\ HasCredential(CWA_API_KEY)
  /\ cityCode' = [cityCode EXCEPT ![r] = code]
  /\ targetLocation' = [targetLocation EXCEPT ![r] = Lookup(CITY_MAP, code)]
  /\ calls' = [calls EXCEPT ![r] = @ + 1]
  /\ outbound' = [outbound EXCEPT ![r] =
                    [ Authorization |-> CWA_API_KEY,
                      locationName |-> Lookup(CITY_MAP, code) ]]
  /\ pc' = [pc EXCEPT ![r] = "Fetching"]
  /\ UNCHANGED << variant, CWA_API_KEY, CITY_MAP, upstream, sent >>

\* mutant: a transport failure is answered by calling axios.get again
ResumeWithRetry(r, reply) ==
  /\ pc[r] = "Fetching"
  /\ IF reply.kind = "transport" /\ calls[r] < 3
     THEN /\ calls' = [calls EXCEPT ![r] = @ + 1]
          /\ UNCHANGED << pc, sent, upstream >>
     ELSE /\ upstream' = [upstream EXCEPT ![r] = reply]
          /\ calls' = calls
          /\ LET a == AfterAwait(variant, cityCode[r], targetLocation[r], reply)
             IN IF a.escaped
                THEN /\ pc' = [pc EXCEPT ![r] = "Rejected"]
                     /\ sent' = sent
                ELSE /\ pc' = [pc EXCEPT ![r] = "Done"]
                     /\ sent' = [sent EXCEPT ![r] = Append(@, a.response)]
  /\ UNCHANGED << variant, CWA_API_KEY, CITY_MAP, cityCode, targetLocation,
                  outbound >>

\* the request that arrived last among those that have arrived
LatestArrived == CHOOSE q \in Req :
  pc[q] # "Idle" /\ \A p \in Req : pc[p] # "Idle" => p <= q

\* mutant: cityCode and targetLocation are module-level variables, so the
\* handler reads what the latest request wrote
ResumeSharedLocals(r, reply) ==
  /\ pc[r] = "Fetching"
  /\ upstream' = [upstream EXCEPT ![r] = reply]
  /\ LET a == AfterAwait(variant, cityCode[LatestArrived],
                         targetLocation[LatestArrived], reply)
     IN IF a.escaped
        THEN /\ pc' = [pc EXCEPT ![r] = "Rejected"]
             /\ sent' = sent
        ELSE /\ pc' = [pc EXCEPT ![r] = "Done"]
             /\ sent' = [sent EXCEPT ![r] = Append(@, a.response)]
  /\ UNCHANGED << variant, CWA_API_KEY, CITY_MAP, cityCode, targetLocation,
                  calls, outbound >>

\* lines 95-174: the promise of axios.get settles and the handler runs to
\* its end; an error thrown inside the catch block rejects the handler's
\* own promise
Resume(r, reply) ==
  /\ pc[r] = "Fetching"
  /\ upstream' = [upstream EXCEPT ![r] = reply]
  /\ LET a == AfterAwait(variant, cityCode[r], targetLocation[r], reply)
     IN IF a.escaped
        THEN /\ pc' = [pc EXCEPT ![r] = "Rejected"]
             /\ sent' = sent
        ELSE /\ pc' = [pc EXCEPT ![r] = "Done"]
             /\ sent' = [sent EXCEPT ![r] = Append(@, a.response)]
  /\ UNCHANGED << variant, CWA_API_KEY, CITY_MAP, cityCode, targetLocation,
                  calls, outbound >>

NullMessageError == "Cannot read properties of null (reading 'message')"

\* lines 201-208: a router that forwards the rejection of an async handler
\* (Express 5) calls the error middleware
ErrorMiddleware(r) ==
  /\ pc[r] = "Rejected"
  /\ sent' = [sent EXCEPT ![r] = Append(@, MiddlewareResponse(NullMessageError))]
  /\ pc' = [pc EXCEPT ![r] = "Handled"]
  /\ UNCHANGED << variant, CWA_API_KEY, CITY_MAP, cityCode, targetLocation,
                  calls, outbound, upstream >>

\* line 199: a router that drops the promise the handler returns
\* (Express 4) leaves the rejection unhandled and res unanswered
UnhandledRejection(r) ==
  /\ pc[r] = "Rejected"
  /\ pc' = [pc EXCEPT ![r] = "Unhandled"]
  /\ UNCHANGED << variant, CWA_API_KEY, CITY_MAP, cityCode, targetLocation,
                  calls, outbound, upstream, sent >>

Next ==
  \/ \E r \in Req, code \in CityCodes : InvalidCity(r, code)
  \/ \E r \in Req, code \in CityCodes : Misconfigured(r, code)
  \/ \E r \in Req, code \in CityCodes : CallUpstream(r, code)
  \/ \E r \in Req :
       pc[r] = "Fetching" /\ \E reply \in Replies : Resume(r, reply)
  \/ \E r \in Req : ErrorMiddleware(r)
  \/ \E r \in Req : UnhandledRejection(r)

Spec == Init /\ [][Next]_vars

\* the answers the concurrent specification draws from
ConcurrentReplies ==
  { TransportFailure,
    StatusReply(503, [t |-> "object", message |-> Str("quota exceeded")]),
    StatusReply(401, Null),
    OkReply(<<>>),
    OkReply(<<MkLocation("Taibei Shi", <<MkElement(1, "Wx", 1, TRUE)>>)>>),
    OkReply(<<MkLocation("Hualian Xian",
                         <<MkElement(1, "PoP", 1, TRUE), MkElement(2, "Wx", 1, TRUE)>>)>>),
    OkReply(<<MkLocation("Taibei Shi", <<>>)>>) }

NextConcurrent ==
  \/ \E r \in Req, code \in CityCodes : InvalidCity(r, code)
  \/ \E r \in Req, code \in CityCodes : Misconfigured(r, code)
  \/ \E r \in Req, code \in CityCodes : CallUpstream(r, code)
  \/ \E r \in Req :
       pc[r] = "Fetching" /\ \E reply \in ConcurrentReplies : Resume(r, reply)
  \/ \E r \in Req : ErrorMiddleware(r)
  \/ \E r \in Req : UnhandledRejection(r)

SpecConcurrent == InitConcurrent /\ [][NextConcurrent]_vars

----------------------------------------------------------------------------
(* Properties.                                                             *)

\* the handler of request r has come to its end
Ended(r) == pc[r] \in {"Done", "Handled", "Unhandled"}

\* the code is a key CITY_MAP itself defines
IsConfiguredCode(code) == code \in DOMAIN CITY_MAP

IsInvalidCityCode(response) ==
  /\ response.status = 400
  /\ response.body.error = "Canshu cuowu"

IsServerMisconfigured(response) ==
  /\ response.status = 500
  /\ response.body.error = "Sifuqi sheding cuowu"

\* C1 as stated: whenever CWA_API_KEY is unset or empty, every request
\* ends with the 500 ServerMisconfigured response and calls the upstream
\* provider zero times.
C1_EveryRequestMisconfigured ==
  \A r \in Req :
    (CWA_API_KEY \in {Undefined, Str("")} /\ Ended(r)) =>
      /\ calls[r] = 0
      /\ Len(sent[r]) = 1
      /\ IsServerMisconfigured(sent[r][1])

\* C1 amended: whenever CWA_API_KEY is unset or empty, no request ever
\* calls the upstream provider, and every request ends at once with one
\* response: 500 ServerMisconfigured when its code passed the validation
\* of line 68, 400 InvalidCityCode when it did not.
C1_FailFast ==
  \A r \in Req :
    CWA_API_KEY \in {Undefined, Str("")} =>
      /\ calls[r] = 0
      /\ outbound[r] = NoParams
      /\ pc[r] \in {"Idle", "Done"}
      /\ pc[r] = "Done" =>
           /\ Len(sent[r]) = 1
           /\ IF cityCode[r] \in DOMAIN CITY_MAP \cup DOMAIN ObjectPrototype
              THEN IsServerMisconfigured(sent[r][1])
              ELSE IsInvalidCityCode(sent[r][1])

\* a request with a configured code was answered 500 ServerMisconfigured
\* under an empty key, without a call
C1_Witness ==
  \E r \in Req :
    /\ CWA_API_KEY = Str("")
    /\ pc[r] = "Done"
    /\ IsConfiguredCode(cityCode[r])
    /\ calls[r] = 0
    /\ IsServerMisconfigured(sent[r][1])

\* C2 as stated: the lookup is exact membership in the configured set: a
\* configured code yields its city name and goes on past validation, every
\* other string is answered 400 InvalidCityCode and never reaches the
\* upstream call.
C2_ExactMembership ==
  \A r \in Req :
    pc[r] # "Idle" =>
      IF IsConfiguredCode(cityCode[r])
      THEN /\ targetLocation[r] = Str(CITY_MAP[cityCode[r]])
           /\ \A k \in 1..Len(sent[r]) : ~IsInvalidCityCode(sent[r][k])
      ELSE /\ targetLocation[r] = Undefined
           /\ calls[r] = 0
           /\ pc[r] = "Done"
           /\ Len(sent[r]) = 1
           /\ IsInvalidCityCode(sent[r][1])

\* C6 as stated: every invocation of the handler makes exactly one call to
\* the upstream provider, on every path.
C6_ExactlyOneCall ==
  \A r \in Req : Ended(r) => calls[r] = 1

\* C6 amended: a request never makes more than one upstream call; it makes
\* exactly one when its code passed validation and the credential is set,
\* and none otherwise.
C6_AtMostOneCall ==
  \A r \in Req :
    /\ calls[r] <= 1
    /\ pc[r] # "Idle" =>
         (calls[r] = 1 <=>
            /\ cityCode[r] \in DOMAIN CITY_MAP \cup DOMAIN ObjectPrototype
            /\ CWA_API_KEY \notin {Undefined, Str("")})

\* a request ended after a transport failure with its single call
C6_Witness ==
  \E r \in Req :
    /\ pc[r] = "Done"
    /\ upstream[r] = TransportFailure
    /\ calls[r] = 1

\* the upstream answer of request r carries at least one location record
HasLocation(r) ==
  /\ upstream[r].kind = "ok"
  /\ upstream[r].hasRecords
  /\ Len(upstream[r].location) >= 1

\* weatherElement of the first location record of request r's answer
ElementsOf(r) == upstream[r].location[1].weatherElement

IsSuccess(response) ==
  /\ response.status = 200
  /\ "success" \in DOMAIN response.body
  /\ response.body.success = TRUE
  /\ "data" \in DOMAIN response.body

\* a failure response carries a label and a message and nothing else
IsFailure(response) ==
  /\ response.status # 200
  /\ {"error", "message"} \subseteq DOMAIN response.body
  /\ "data" \notin DOMAIN response.body

\* C3 as stated: a location record with no weather elements, or with an
\* element whose series is shorter or longer than the first element's,
\* always ends in a 500 failure response and never in a success response.
C3_MisalignedIsMalformed ==
  \A r \in Req :
    ( /\ Ended(r)
      /\ HasLocation(r)
      /\ upstream[r].location[1].hasWeatherElement
      /\ \/ Len(ElementsOf(r)) = 0
         \/ \E k \in 1..Len(ElementsOf(r)) :
              Len(ElementsOf(r)[k].time) # Len(ElementsOf(r)[1].time) )
    => /\ Len(sent[r]) = 1
       /\ sent[r][1].status = 500
       /\ IsFailure(sent[r][1])

\* C4 as stated: every failure while handling a request, one raised in the
\* error branch included, is turned into a JSON failure response: no
\* request is left with a rejected handler and no response.
C4_NoFailureEscapes ==
  \A r \in Req :
    /\ pc[r] # "Unhandled"
    /\ Ended(r) =>
         /\ Len(sent[r]) = 1
         /\ IsSuccess(sent[r][1]) \/ IsFailure(sent[r][1])

\* every element has as many entries as the first, each with a parameter
Aligned(elements) ==
  /\ Len(elements) >= 1
  /\ \A k \in 1..Len(elements) :
       /\ Len(elements[k].time) = Len(elements[1].time)
       /\ \A i \in 1..Len(elements[k].time) : elements[k].time[i].hasParameter

Tagged(elements, name) ==
  { k \in 1..Len(elements) : elements[k].elementName = name }

\* the value the field of tag name must have in interval i: the i-th value
\* of the element tagged name (of the last one, should several carry the
\* tag) with the suffix, the empty string when no element carries the tag
FieldOf(elements, name, i, suffix) ==
  IF Tagged(elements, name) = {} THEN ""
  ELSE LET k == CHOOSE k \in Tagged(elements, name) :
                   \A j \in Tagged(elements, name) : j <= k
       IN elements[k].time[i].parameterName \o suffix

\* C5: for a location record whose elements all have N aligned entries the
\* response is a success with exactly N forecast intervals in upstream
\* order; interval i has the times of the first element's i-th entry and,
\* for each of Wx, PoP, MinT, MaxT, CI, WS, the i-th value of the element
\* so tagged, with "%" after PoP and the degree suffix after MinT and
\* MaxT; a field no element is tagged for is the empty string, and
\* elements with other tags change no field.
C5_Normalization ==
  \A r \in Req :
    (Ended(r) /\ HasLocation(r)
       /\ upstream[r].location[1].hasWeatherElement /\ Aligned(ElementsOf(r)))
    => /\ Len(sent[r]) = 1
       /\ IsSuccess(sent[r][1])
       /\ LET e == ElementsOf(r)
              f == sent[r][1].body.data.forecasts
          IN /\ Len(f) = Len(e[1].time)
             /\ \A i \in 1..Len(f) :
                  f[i] = [ startTime |-> e[1].time[i].startTime,
                           endTime |-> e[1].time[i].endTime,
                           weather |-> FieldOf(e, "Wx", i, ""),
                           rain |-> FieldOf(e, "PoP", i, "%"),
                           minTemp |-> FieldOf(e, "MinT", i, "[deg]C"),
                           maxTemp |-> FieldOf(e, "MaxT", i, "[deg]C"),
                           comfort |-> FieldOf(e, "CI", i, ""),
                           windSpeed |-> FieldOf(e, "WS", i, "") ]

\* the record with the six known elements and an unknown one, three
\* entries each, was normalised
C5_Witness ==
  \E r \in Req :
    /\ pc[r] = "Done"
    /\ HasLocation(r)
    /\ ElementsOf(r) = SixElements
    /\ IsSuccess(sent[r][1])
    /\ Len(sent[r][1].body.data.forecasts) = 3
    /\ sent[r][1].body.data.forecasts[2].rain = "32%"
    /\ sent[r][1].body.data.forecasts[3].maxTemp = "53[deg]C"

IsUpstreamError(response) ==
  /\ "error" \in DOMAIN response.body
  /\ response.body.error = "CWA API cuowu"

\* C7 as stated: a non-success status of the upstream provider always ends
\* in an UpstreamError response with the upstream status and the upstream
\* message unchanged, whatever the message is; a transport failure ends in
\* a 500 response.
C7_UpstreamVerbatim ==
  \A r \in Req :
    /\ (Ended(r) /\ upstream[r].kind = "status") =>
         /\ Len(sent[r]) = 1
         /\ IsUpstreamError(sent[r][1])
         /\ sent[r][1].status = upstream[r].status
         /\ (upstream[r].data.t = "object"
               /\ upstream[r].data.message.t = "string") =>
              sent[r][1].body.message = upstream[r].data.message.v
    /\ (Ended(r) /\ upstream[r].kind = "transport") =>
         /\ Len(sent[r]) = 1
         /\ sent[r][1].status = 500

\* s has sub as a substring
Contains(s, sub) ==
  \E i \in 1..(Len(s) - Len(sub) + 1) : SubSeq(s, i, i + Len(sub) - 1) = sub

\* C8: a request with a configured code and a set credential whose
\* upstream call succeeds with zero location entries ends in the single
\* response 404 NoDataForLocation, whose message names the city the code
\* stands for, and carries no success flag and no data.
C8_NoDataForLocation ==
  \A r \in Req :
    ( /\ IsConfiguredCode(cityCode[r])
      /\ upstream[r].kind = "ok"
      /\ upstream[r].hasRecords
      /\ Len(upstream[r].location) = 0 )
    => /\ pc[r] = "Done"
       /\ calls[r] = 1
       /\ Len(sent[r]) = 1
       /\ sent[r][1].status = 404
       /\ sent[r][1].body.error = "Cha wu ziliao"
       /\ Contains(sent[r][1].body.message, CITY_MAP[cityCode[r]])
       /\ DOMAIN sent[r][1].body = {"error", "message"}

\* hualien was asked for and the upstream answer had no location
C8_Witness ==
  \E r \in Req :
    /\ cityCode[r] = "hualien"
    /\ upstream[r] = OkReply(<<>>)
    /\ sent[r][1].status = 404
    /\ Contains(sent[r][1].body.message, "Hualian Xian")

\* C10 as stated: a request goes through validation, fetch and
\* normalisation in that order and ends with exactly one response: the
\* upstream call comes only after the code resolved and the credential
\* check passed, a success response only after a successful upstream
\* answer was normalised, and nothing follows a failure response.
C10_OneOutcome ==
  \A r \in Req :
    /\ calls[r] >= 1 => (Truthy(targetLocation[r]) /\ Truthy(CWA_API_KEY))
    /\ upstream[r] # NoReply => calls[r] = 1
    /\ Len(sent[r]) <= 1
    /\ (Len(sent[r]) = 1 /\ IsSuccess(sent[r][1])) =>
         (HasLocation(r) /\ ~Normalize(upstream[r].location[1]).threw)
    /\ Len(sent[r]) = 1 => pc[r] \in {"Done", "Handled"}
    /\ Ended(r) => Len(sent[r]) = 1

\* the handler of request r can take its next step
CanStep(r) ==
  \/ ENABLED (\E code \in CityCodes :
                InvalidCity(r, code) \/ Misconfigured(r, code) \/ CallUpstream(r, code))
  \/ ENABLED (\E reply \in ConcurrentReplies : Resume(r, reply))
  \/ ENABLED (ErrorMiddleware(r) \/ UnhandledRejection(r))

====
